---- MODULE Spec2Model ----
(***************************************************************************)
(* Multi-tenant voice-feature store of le_bot_vpr.                         *)
(*                                                                         *)
(*   app/db/multi_collection_chroma_storage.py  MultiCollectionChromaStorage*)
(*   app/vpr/chroma_predictor.py                ChromaVoicePredictor        *)
(*                                                                         *)
(* Python strings are TLA+ strings (Len, SubSeq, Tail and \o act on them   *)
(* character by character).  Embeddings are integer vectors of norm 5;     *)
(* distances and similarities are carried in hundredths, so that the       *)
(* code's `1 - distance/2` is exact integer arithmetic.                    *)
(***************************************************************************)
EXTENDS Integers, Sequences, FiniteSets, TLC

VARIABLES
    collections,        \* the ChromaDB client's collections: name -> [cid, records]
    collections_cache,  \* MultiCollectionChromaStorage.collections_cache: user_id -> handle
    resets,             \* number of clear_all calls that have dropped collections
    uuid_seq,           \* number of uuid4() values drawn so far
    now,                \* wall clock, in seconds (time.time())
    feature_cache,      \* ChromaVoicePredictor.feature_cache
    user_profile_cache, \* ChromaVoicePredictor.user_profile_cache
    last,               \* the most recent call and what it returned
    calls,              \* the _get_user_collection calls in progress, per thread
    timing_stats        \* TimedMVectorPredictor.timing_stats: method name -> statistics

vars == <<collections, collections_cache, resets, uuid_seq, now,
          feature_cache, user_profile_cache, last, calls, timing_stats>>

(***************************************************************************)
(* Bounds of the model.                                                    *)
(***************************************************************************)
MaxRecords == 3      \* records added over a run
MaxTime == 1         \* the clock stops advancing here
MaxResets == 1       \* clear_all calls over a run
MaxCalls == 3        \* timed calls of one method between two resets
MantissaBits == 3    \* significant bits of a float (binary64 has 53)

(***************************************************************************)
(* ChromaVoicePredictor(lazy_load=True, cache_timeout=300), the instance   *)
(* the module creates.                                                     *)
(***************************************************************************)
lazy_load == TRUE
cache_timeout == 300

(***************************************************************************)
(* Python values.                                                          *)
(***************************************************************************)
\* user_id=None: a value that is no tenant id of the inputs.
None == "<None>"

\* `if user_id:` -- None and the empty string are both falsy.
Truthy(s) == s # None /\ s # ""

\* str(bool)
PyStr(b) == IF b THEN "True" ELSE "False"

LowerChar(c) ==
    CASE c = "S" -> "s" [] c = "E" -> "e" [] c = "L" -> "l" [] c = "F" -> "f"
      [] c = "M" -> "m" [] c = "R" -> "r" [] c = "I" -> "i" [] c = "N" -> "n"
      [] c = "D" -> "d" [] c = "B" -> "b" [] c = "O" -> "o"
      [] OTHER -> c

\* str.lower()
RECURSIVE lower(_)
lower(s) == IF s = "" THEN "" ELSE LowerChar(SubSeq(s, 1, 1)) \o lower(Tail(s))

\* str.split(sep) for a one-character separator
RECURSIVE split(_, _)
split(s, sep) ==
    IF s = "" THEN <<"">>
    ELSE LET c == SubSeq(s, 1, 1)
             rest == split(Tail(s), sep)
         IN  IF c = sep THEN <<"">> \o rest
             ELSE <<c \o Head(rest)>> \o Tail(rest)

\* str.startswith(prefix)
startswith(s, prefix) ==
    Len(s) >= Len(prefix) /\ SubSeq(s, 1, Len(prefix)) = prefix

\* s[n:]
SliceFrom(s, n) == IF Len(s) <= n THEN "" ELSE SubSeq(s, n + 1, Len(s))

\* seq[:n] for n >= 0
Take(seq, n) == IF Len(seq) <= n THEN seq ELSE SubSeq(seq, 1, n)

\* The relationship labels of the sources.  SANY reads ASCII only: "benren"
\* stands for the two CJK characters of the reserved label U+672C U+4EBA and
\* "pengyou" for the default label U+670B U+53CB; neither has cased letters.
BenRen == "benren"
PengYou == "pengyou"

\* uuid.uuid4().hex[:8]: the n-th draw, eight hexadecimal digits, all distinct.
Uuid8(n) == "a3f09c1" \o ToString(n)

(***************************************************************************)
(* Embeddings and the index's distance.  Every embedding has norm 5, so    *)
(* cos(a, b) = Dot(a, b) / 25 and the cosine distance 1 - cos(a, b), in    *)
(* hundredths, is 100 - 4 * Dot(a, b): a value of 0 .. 200.                *)
(***************************************************************************)
Dot(a, b) == a[1] * b[1] + a[2] * b[2]

\* hnsw:space = cosine
CosineDistance(a, b) == 100 - 4 * Dot(a, b)

\* similarity = 1 - distance/2, in hundredths
SimilarityBad(distance) == 100 - distance
Similarity(distance) == 100 - distance \div 2

(***************************************************************************)
(* The ChromaDB client (chromadb.PersistentClient), as the store uses it.  *)
(* A handle names a collection by name and by the id the client gave it    *)
(* when it was created; a call through a handle whose collection has been  *)
(* dropped raises.  The client gives every collection it creates a fresh   *)
(* id: only clear_all drops collections, so the name together with the     *)
(* number of resets before the creation identifies a collection, and that  *)
(* number is its id here.  `fault` names the one client call that raises   *)
(* in the handler being run ("none": no call raises).                      *)
(***************************************************************************)
Live(C, h) == h.name \in DOMAIN C /\ C[h.name].cid = h.cid

\* client.get_or_create_collection(name, metadata)
create_collection_anew(st, name) ==
    LET cid == IF name \in DOMAIN st.collections
               THEN st.collections[name].cid + 1 ELSE st.resets
    IN  [st |-> [st EXCEPT !.collections =
                        (name :> [cid |-> cid, records |-> <<>>]) @@ @],
         handle |-> [name |-> name, cid |-> cid]]
get_or_create_collection(st, name) ==
    IF name \in DOMAIN st.collections
    THEN [st |-> st, handle |-> [name |-> name, cid |-> st.collections[name].cid]]
    ELSE [st |-> [st EXCEPT !.collections =
                        (name :> [cid |-> st.resets, records |-> <<>>]) @@ @],
          handle |-> [name |-> name, cid |-> st.resets]]

\* collection.add(embeddings, metadatas, ids)
coll_add_overwrite(C, h, rec) == [C EXCEPT ![h.name].records = <<rec>>]
coll_add(C, h, rec) == [C EXCEPT ![h.name].records = Append(@, rec)]

\* The index fixes the dimensionality of a collection with the first
\* embedding it is given and raises on an embedding of another size
coll_accepts(C, h, embedding) ==
    \A i \in 1..Len(C[h.name].records) :
        Len(C[h.name].records[i].embedding) = Len(embedding)

\* collection.get(): the records, in insertion order
coll_get(C, h) == C[h.name].records

\* collection.count()
coll_count(C, h) == Len(C[h.name].records)

\* collection.delete(ids)
coll_delete(C, h, ids) ==
    [C EXCEPT ![h.name].records = SelectSeq(@, LAMBDA r : r.id \notin ids)]

\* The hits of a query in the order the index returns them: nearest first,
\* equal distances in insertion order.
RECURSIVE NearestFirst(_, _)
NearestFirst(recs, q) ==
    IF recs = <<>> THEN <<>>
    ELSE LET n == Len(recs)
             x == recs[n]
             d == CosineDistance(x.embedding, q)
             sorted == NearestFirst(SubSeq(recs, 1, n - 1), q)
             k == Cardinality({i \in 1..Len(sorted) :
                                 CosineDistance(sorted[i].embedding, q) <= d})
         IN  SubSeq(sorted, 1, k) \o <<x>> \o SubSeq(sorted, k + 1, Len(sorted))

\* collection.query(query_embeddings=[q], n_results=n): at most n hits
coll_query(C, h, q, n) ==
    LET hits == Take(NearestFirst(C[h.name].records, q), n)
    IN  [i \in 1..Len(hits) |->
            [id |-> hits[i].id, metadata |-> hits[i].metadata,
             distance |-> CosineDistance(hits[i].embedding, q)]]

\* os.listdir(base_directory), the directories.  The client keeps one
\* directory per collection beside its chroma.sqlite3 file and names it by a
\* UUID, which starts with a hexadecimal digit; the store itself creates no
\* directory there.  The name below is one string per collection that starts
\* as a UUID does.
SegmentDir(name, cid) == "7c9e6679-" \o ToString(cid) \o "-" \o name
listdir(st) ==
    {SegmentDir(n, st.collections[n].cid) : n \in DOMAIN st.collections}

(***************************************************************************)
(* MultiCollectionChromaStorage.  `st` is the storage object together with *)
(* its client: [collections, collections_cache, resets, uuid_seq].  A      *)
(* method is an operator from `st` and the arguments to the new `st`, the  *)
(* returned value `ret` and, where the method can raise, `exc`.            *)
(***************************************************************************)
CollectionNameShared(user_id) == "user_voice_features"
CollectionName(user_id) == "user_" \o user_id \o "_voice_features"

_get_user_collection_poisoned(st, user_id, fault) ==
    IF user_id \in DOMAIN st.collections_cache
    THEN [st |-> st, exc |-> FALSE, ret |-> st.collections_cache[user_id]]
    ELSE IF fault = "get_or_create_collection"
    THEN [st |-> [st EXCEPT !.collections_cache =
                     (user_id :> [name |-> None, cid |-> 0]) @@ @],
          exc |-> TRUE, ret |-> None]
    ELSE LET r == get_or_create_collection(st, CollectionName(user_id))
         IN  [st |-> [r.st EXCEPT !.collections_cache = (user_id :> r.handle) @@ @],
              exc |-> FALSE, ret |-> r.handle]
_get_user_collection(st, user_id, fault) ==
    IF user_id \in DOMAIN st.collections_cache
    THEN [st |-> st, exc |-> FALSE, ret |-> st.collections_cache[user_id]]
    ELSE IF fault = "get_or_create_collection"
    THEN [st |-> st, exc |-> TRUE, ret |-> None]
    ELSE LET r == get_or_create_collection(st, CollectionName(user_id))
         IN  [st |-> [r.st EXCEPT !.collections_cache = (user_id :> r.handle) @@ @],
              exc |-> FALSE, ret |-> r.handle]

\* is_user = (relationship.lower() in [...])
SelfLabels == {BenRen, "self", "me"}
IsUserExact(relationship) == relationship \in SelfLabels
IsUser(relationship) == lower(relationship) \in SelfLabels

VoiceId(user_id, person_name, n, t) ==
    user_id \o "_" \o person_name \o "_" \o Uuid8(n) \o "_" \o ToString(t)

NewRecord(voice_id, user_id, person_name, feature_vector, relationship, t) ==
    [id |-> voice_id,
     embedding |-> feature_vector,
     metadata |-> [user_id |-> user_id,
                   person_name |-> person_name,
                   relationship |-> relationship,
                   is_user |-> PyStr(IsUser(relationship)),
                   created_at |-> t,
                   created_timestamp |-> t * 1000]]

add_voice_feature(st, t, user_id, person_name, feature_vector, relationship, fault) ==
    LET voice_id == VoiceId(user_id, person_name, st.uuid_seq, t)
        s1 == [st EXCEPT !.uuid_seq = @ + 1]
        g == _get_user_collection(s1, user_id, fault)
        rec == NewRecord(voice_id, user_id, person_name, feature_vector, relationship, t)
    IN  IF \/ g.exc \/ fault = "add" \/ ~Live(g.st.collections, g.ret)
           \/ ~coll_accepts(g.st.collections, g.ret, feature_vector)
        THEN [st |-> g.st, exc |-> TRUE, ret |-> None]
        ELSE [st |-> [g.st EXCEPT !.collections = coll_add(@, g.ret, rec)],
              exc |-> FALSE, ret |-> voice_id]

\* person_key of a record in get_user_all_features
PersonKeyByName(rec) ==
    IF rec.metadata.is_user = "True" THEN "user" ELSE rec.metadata.person_name
PersonKey(rec) ==
    IF rec.metadata.is_user = "True"
    THEN "user"
    ELSE split(rec.id, "_")[3] \o "_" \o rec.metadata.person_name

\* features_by_person, a dict: person_key -> the embeddings in insertion order
GroupFeatures(recs) ==
    [k \in {PersonKey(recs[i]) : i \in 1..Len(recs)} |->
        LET mine == SelectSeq(recs, LAMBDA r : PersonKey(r) = k)
        IN  [i \in 1..Len(mine) |-> mine[i].embedding]]

EmptyDict == [k \in {} |-> <<>>]

get_user_all_features(st, user_id, fault) ==
    LET g == _get_user_collection(st, user_id, fault)
    IN  IF g.exc \/ fault = "get" \/ ~Live(g.st.collections, g.ret)
        THEN [st |-> g.st, ret |-> EmptyDict]
        ELSE [st |-> g.st, ret |-> GroupFeatures(coll_get(g.st.collections, g.ret))]

\* One formatted entry of similar_voices
Match(hit) ==
    [voice_id |-> hit.id,
     user_id |-> hit.metadata.user_id,
     person_id |-> hit.id,
     person_name |-> hit.metadata.person_name,
     relationship |-> hit.metadata.relationship,
     is_user |-> (hit.metadata.is_user = "True"),
     similarity |-> Similarity(hit.distance),
     distance |-> hit.distance,
     created_at |-> hit.metadata.created_at]

\* The loop over one query's hits: format, keep similarity >= threshold
KeepAtMost(hits, threshold) ==
    SelectSeq([i \in 1..Len(hits) |-> Match(hits[i])],
              LAMBDA m : m.similarity <= threshold)
KeepAll(hits, threshold) == [i \in 1..Len(hits) |-> Match(hits[i])]
Keep(hits, threshold) ==
    SelectSeq([i \in 1..Len(hits) |-> Match(hits[i])],
              LAMBDA m : m.similarity >= threshold)

\* list.sort(key=similarity, reverse=True): stable
RECURSIVE SortBySimilarityDesc(_)
SortBySimilarityDesc(ms) ==
    IF ms = <<>> THEN <<>>
    ELSE LET n == Len(ms)
             x == ms[n]
             sorted == SortBySimilarityDesc(SubSeq(ms, 1, n - 1))
             k == Cardinality({i \in 1..Len(sorted) :
                                 sorted[i].similarity >= x.similarity})
         IN  SubSeq(sorted, 1, k) \o <<x>> \o SubSeq(sorted, k + 1, Len(sorted))

\* seq[:top_k]
SliceTo(seq, top_k) ==
    IF top_k >= 0 THEN Take(seq, top_k)
    ELSE IF Len(seq) + top_k <= 0 THEN <<>>
    ELSE SubSeq(seq, 1, Len(seq) + top_k)

\* A set as a sequence, in the order os.listdir happens to give
RECURSIVE SetToSeq(_)
SetToSeq(S) ==
    IF S = {} THEN <<>>
    ELSE LET x == CHOOSE y \in S : TRUE IN <<x>> \o SetToSeq(S \ {x})

\* The directories of base_directory that the scans take for tenants
UserDirs(st) == SetToSeq({d \in listdir(st) : startswith(d, "user_")})

\* The fault "collection.query raises for the collection of user_id"
QueryFault(user_id) == "query " \o user_id

\* The query of one collection inside find_most_similar; exc: it raised
QueryCollection(st, query_vector, user_id, threshold, top_k, fault) ==
    LET g == _get_user_collection(st, user_id, fault)
    IN  IF \/ g.exc \/ fault = "query" \/ fault = QueryFault(user_id)
           \/ ~Live(g.st.collections, g.ret) \/ top_k <= 0
        THEN [st |-> g.st, exc |-> TRUE, ret |-> <<>>]
        ELSE [st |-> g.st, exc |-> FALSE,
              ret |-> Keep(coll_query(g.st.collections, g.ret, query_vector, top_k),
                           threshold)]

\* The loop over user_dirs; a tenant whose query raises is skipped
RECURSIVE FanOut(_, _, _, _, _, _)
FanOut(st, dirs, query_vector, threshold, top_k, fault) ==
    IF dirs = <<>> THEN [st |-> st, ret |-> <<>>]
    ELSE LET target_user_id == SliceFrom(Head(dirs), 5)
             r == QueryCollection(st, query_vector, target_user_id, threshold, top_k, fault)
             rest == FanOut(r.st, Tail(dirs), query_vector, threshold, top_k, fault)
         IN  [st |-> rest.st, ret |-> r.ret \o rest.ret]

find_most_similar(st, query_vector, user_id, threshold, top_k, fault) ==
    IF Truthy(user_id)
    THEN LET r == QueryCollection(st, query_vector, user_id, threshold, top_k, fault)
         IN  IF r.exc THEN [st |-> r.st, ret |-> <<>>]
             ELSE [st |-> r.st, ret |-> SliceTo(SortBySimilarityDesc(r.ret), top_k)]
    ELSE LET r == FanOut(st, UserDirs(st), query_vector, threshold, top_k, fault)
         IN  [st |-> r.st, ret |-> SliceTo(SortBySimilarityDesc(r.ret), top_k)]

\* voice_ids = results['ids'] in delete_user_all_voices
VoiceIdsOfOthers(recs) ==
    SelectSeq([i \in 1..Len(recs) |-> recs[i]], LAMBDA r : r.metadata.is_user = "False")
VoiceIds(recs) == recs

delete_user_all_voices(st, user_id, fault) ==
    LET g == _get_user_collection(st, user_id, fault)
    IN  IF g.exc \/ fault = "get" \/ ~Live(g.st.collections, g.ret)
        THEN [st |-> g.st, ret |-> 0]
        ELSE LET voice_ids == VoiceIds(coll_get(g.st.collections, g.ret))
                 ids == {voice_ids[i].id : i \in 1..Len(voice_ids)}
             IN  IF ids = {} THEN [st |-> g.st, ret |-> 0]
                 ELSE IF fault = "delete" THEN [st |-> g.st, ret |-> 0]
                 ELSE [st |-> [g.st EXCEPT !.collections = coll_delete(@, g.ret, ids)],
                       ret |-> Len(voice_ids)]

\* The records delete_user_person_voices selects
MatchesAnySelf(rec, person_name) == rec.metadata.person_name = person_name
MatchesPerson(rec, person_name) ==
    rec.metadata.person_name = person_name /\ rec.metadata.is_user = "False"

delete_user_person_voices(st, user_id, person_name, fault) ==
    LET g == _get_user_collection(st, user_id, fault)
    IN  IF g.exc \/ fault = "get" \/ ~Live(g.st.collections, g.ret)
        THEN [st |-> g.st, ret |-> 0]
        ELSE LET recs == coll_get(g.st.collections, g.ret)
                 voice_ids_to_delete ==
                     SelectSeq(recs, LAMBDA r : MatchesPerson(r, person_name))
                 ids == {voice_ids_to_delete[i].id : i \in 1..Len(voice_ids_to_delete)}
             IN  IF ids = {} THEN [st |-> g.st, ret |-> 0]
                 ELSE IF fault = "delete" THEN [st |-> g.st, ret |-> 0]
                 ELSE [st |-> [g.st EXCEPT !.collections = coll_delete(@, g.ret, ids)],
                       ret |-> Len(voice_ids_to_delete)]

\* Index of the entry for person_name in a dict kept as a sequence, 0 if none
KeyIndex(entries, person_name) ==
    IF \E i \in 1..Len(entries) : entries[i].person_name = person_name
    THEN CHOOSE i \in 1..Len(entries) : entries[i].person_name = person_name
    ELSE 0

PersonId(user_id, person_name, t) ==
    user_id \o "_" \o person_name \o "_" \o ToString(t)

\* The loop of get_user_persons: one entry per person_name of the records
\* that are not the user's own, in order of first appearance
PersonsStepLatest(persons, rec, user_id, t) ==
    LET m == rec.metadata
        i == KeyIndex(persons, m.person_name)
    IN  IF m.is_user = "True" THEN persons
        ELSE IF i = 0
        THEN Append(persons,
                    [person_id |-> PersonId(user_id, m.person_name, t),
                     person_name |-> m.person_name,
                     relationship |-> m.relationship,
                     audio_count |-> 1,
                     created_at |-> m.created_at])
        ELSE [persons EXCEPT ![i].audio_count = @ + 1,
                             ![i].relationship = m.relationship,
                             ![i].created_at = m.created_at]
PersonsStep(persons, rec, user_id, t) ==
    LET m == rec.metadata
        i == KeyIndex(persons, m.person_name)
    IN  IF m.is_user = "True" THEN persons
        ELSE IF i = 0
        THEN Append(persons,
                    [person_id |-> PersonId(user_id, m.person_name, t),
                     person_name |-> m.person_name,
                     relationship |-> m.relationship,
                     audio_count |-> 1,
                     created_at |-> m.created_at])
        ELSE [persons EXCEPT ![i].audio_count = @ + 1]

RECURSIVE PersonsLoop(_, _, _, _)
PersonsLoop(persons, recs, user_id, t) ==
    IF recs = <<>> THEN persons
    ELSE PersonsLoop(PersonsStep(persons, Head(recs), user_id, t), Tail(recs), user_id, t)

get_user_persons(st, t, user_id, fault) ==
    LET g == _get_user_collection(st, user_id, fault)
    IN  IF g.exc \/ fault = "get" \/ ~Live(g.st.collections, g.ret)
        THEN [st |-> g.st, ret |-> <<>>]
        ELSE [st |-> g.st,
              ret |-> PersonsLoop(<<>>, coll_get(g.st.collections, g.ret), user_id, t)]

\* user_audio_count of get_user_stats
CountAll(recs) == Len(recs)
CountSelf(recs) == Len(SelectSeq(recs, LAMBDA r : r.metadata.is_user = "True"))

\* persons_info of get_user_stats
PersonsInfoOfAll(recs, user_id, t) ==
    LET all == [i \in 1..Len(recs) |-> [recs[i] EXCEPT !.metadata.is_user = "False"]]
        ps == PersonsLoop(<<>>, all, user_id, t)
    IN  [i \in 1..Len(ps) |->
            [person_id |-> ps[i].person_id, person_name |-> ps[i].person_name,
             audio_count |-> ps[i].audio_count, created_at |-> ps[i].created_at]]
PersonsInfo(recs, user_id, t) ==
    LET ps == PersonsLoop(<<>>, recs, user_id, t)
    IN  [i \in 1..Len(ps) |->
            [person_id |-> ps[i].person_id, person_name |-> ps[i].person_name,
             audio_count |-> ps[i].audio_count, created_at |-> ps[i].created_at]]

RECURSIVE SumAudioCount(_)
SumAudioCount(ps) ==
    IF ps = <<>> THEN 0 ELSE Head(ps).audio_count + SumAudioCount(Tail(ps))

ZeroStats(user_id, t) ==
    [user_id |-> user_id, user_audio_count |-> 0, total_persons |-> 0,
     total_audio_features |-> 0, persons_detail |-> <<>>, last_updated |-> t]

UserStats(recs, user_id, t) ==
    LET user_audio_count == CountSelf(recs)
        persons_info == PersonsInfo(recs, user_id, t)
    IN  [user_id |-> user_id,
         user_audio_count |-> user_audio_count,
         total_persons |-> Len(persons_info),
         total_audio_features |-> user_audio_count + SumAudioCount(persons_info),
         persons_detail |-> persons_info,
         last_updated |-> t]

\* The scan of one user directory in the global statistics
GlobalOne(st, all_stats, target_user_id, fault) ==
    LET g == _get_user_collection(st, target_user_id, fault)
        counted == [all_stats EXCEPT !.total_users = @ + 1]
    IN  IF g.exc \/ fault = "count" \/ ~Live(g.st.collections, g.ret)
        THEN [st |-> g.st, ret |-> counted]
        ELSE LET recs == coll_get(g.st.collections, g.ret)
                 count == coll_count(g.st.collections, g.ret)
                 summed == [counted EXCEPT !.total_audio_features = @ + count]
                 has_user_voice ==
                     \E i \in 1..Len(recs) : recs[i].metadata.is_user = "True"
                 has_persons_voice ==
                     \E i \in 1..Len(recs) : recs[i].metadata.is_user = "False"
                 person_names ==
                     {recs[i].metadata.person_name :
                        i \in {j \in 1..Len(recs) : recs[j].metadata.is_user = "False"}}
             IN  IF count > 0 /\ fault = "get" THEN [st |-> g.st, ret |-> summed]
                 ELSE IF count > 0 /\ has_user_voice /\ has_persons_voice
                 THEN [st |-> g.st, ret |-> [summed EXCEPT !.total_persons = @ + 1]]
                 ELSE IF count > 0 /\ has_persons_voice
                 THEN [st |-> g.st,
                       ret |-> [summed EXCEPT !.total_persons = @ + Cardinality(person_names)]]
                 ELSE [st |-> g.st, ret |-> summed]

RECURSIVE GlobalLoop(_, _, _, _)
GlobalLoop(st, all_stats, dirs, fault) ==
    IF dirs = <<>> THEN [st |-> st, ret |-> all_stats]
    ELSE LET r == GlobalOne(st, all_stats, SliceFrom(Head(dirs), 5), fault)
         IN  GlobalLoop(r.st, r.ret, Tail(dirs), fault)

get_user_stats(st, t, user_id, fault) ==
    IF Truthy(user_id)
    THEN LET g == _get_user_collection(st, user_id, fault)
         IN  IF g.exc \/ fault = "get" \/ ~Live(g.st.collections, g.ret)
             THEN [st |-> g.st, ret |-> ZeroStats(user_id, t)]
             ELSE [st |-> g.st,
                   ret |-> UserStats(coll_get(g.st.collections, g.ret), user_id, t)]
    ELSE LET r == GlobalLoop(st, [total_users |-> 0, total_persons |-> 0,
                                  total_audio_features |-> 0],
                             UserDirs(st), fault)
         IN  [st |-> r.st,
              ret |-> [total_users |-> r.ret.total_users,
                       total_persons |-> r.ret.total_persons,
                       total_audio_features |-> r.ret.total_audio_features,
                       last_updated |-> t]]

get_storage_info(st) ==
    [storage_type |-> "single_collection_per_user",
     total_users |-> Len(UserDirs(st)),
     hnsw_space |-> "cosine",
     collections_per_user |-> 1]

\* The tenant ids the scans recover: user_dir[5:] of every directory taken
EnumeratedUserIds(st) ==
    {SliceFrom(UserDirs(st)[i], 5) : i \in 1..Len(UserDirs(st))}

\* clear_all: every collection is dropped and the handle cache emptied; when
\* a delete_collection raises, the collections `survivors` are still there
\* and the handle cache is left as it was.
clear_all_keep_handles(st, fault, survivors) ==
    [st |-> [st EXCEPT !.collections = [n \in {} |-> <<>>],
                       !.resets = IF DOMAIN st.collections = {} THEN @ ELSE @ + 1],
     ret |-> TRUE]
clear_all(st, fault, survivors) ==
    IF fault = "list_collections" THEN [st |-> st, ret |-> FALSE]
    ELSE IF fault = "delete_collection"
    THEN [st |-> [st EXCEPT !.collections =
                     [n \in DOMAIN st.collections \cap survivors |-> st.collections[n]],
                            !.resets = IF DOMAIN st.collections \subseteq survivors
                                       THEN @ ELSE @ + 1],
          ret |-> FALSE]
    ELSE [st |-> [st EXCEPT !.collections = [n \in {} |-> <<>>],
                            !.collections_cache = [u \in {} |-> <<>>],
                            !.resets = IF DOMAIN st.collections = {} THEN @ ELSE @ + 1],
          ret |-> TRUE]

(***************************************************************************)
(* The store as a state machine: one action per public method of           *)
(* MultiCollectionChromaStorage, called directly (as the test scripts do). *)
(* `last` keeps the most recent mutating call and what it returned; what a *)
(* reading method returns is the method's operator applied to the state.   *)
(***************************************************************************)
St == [collections |-> collections, collections_cache |-> collections_cache,
       resets |-> resets, uuid_seq |-> uuid_seq]

SetSt(s) ==
    /\ collections' = s.collections
    /\ collections_cache' = s.collections_cache
    /\ resets' = s.resets
    /\ uuid_seq' = s.uuid_seq


\* The threads that may be inside _get_user_collection; an idle thread is
\* in no call
Threads == {"w1", "w2", "w3"}
Idle == [pc |-> "idle"]

Init ==
    /\ collections = [n \in {} |-> <<>>]
    /\ collections_cache = [u \in {} |-> <<>>]
    /\ resets = 0
    /\ uuid_seq = 0
    /\ now = 0
    /\ feature_cache = [u \in {} |-> <<>>]
    /\ user_profile_cache = [u \in {} |-> <<>>]
    /\ last = [op |-> "none"]
    /\ calls = [w \in Threads |-> Idle]
    /\ timing_stats = [m \in {} |-> <<>>]

\* time passes
Tick ==
    /\ now % cache_timeout < MaxTime
    /\ now' = now + 1
    /\ UNCHANGED <<collections, collections_cache, resets, uuid_seq,
                   feature_cache, user_profile_cache, last, calls,
                   timing_stats>>

AddVoiceFeature(user_id, person_name, feature_vector, relationship, fault) ==
    /\ uuid_seq < MaxRecords
    /\ LET r == add_voice_feature(St, now, user_id, person_name, feature_vector,
                                  relationship, fault)
       IN  /\ SetSt(r.st)
           /\ last' = [op |-> "add_voice_feature", user_id |-> user_id,
                       person_name |-> person_name, exc |-> r.exc, ret |-> r.ret]
    /\ UNCHANGED <<now, feature_cache, user_profile_cache, calls, timing_stats>>

GetUserAllFeatures(user_id, fault) ==
    /\ SetSt(get_user_all_features(St, user_id, fault).st)
    /\ UNCHANGED <<now, feature_cache, user_profile_cache, last, calls,
                   timing_stats>>

FindMostSimilar(query_vector, user_id, threshold, top_k, fault) ==
    /\ SetSt(find_most_similar(St, query_vector, user_id, threshold, top_k, fault).st)
    /\ UNCHANGED <<now, feature_cache, user_profile_cache, last, calls,
                   timing_stats>>

DeleteUserAllVoices(user_id, fault) ==
    /\ LET r == delete_user_all_voices(St, user_id, fault)
       IN  /\ SetSt(r.st)
           /\ last' = [op |-> "delete_user_all_voices", user_id |-> user_id,
                       ret |-> r.ret]
    /\ UNCHANGED <<now, feature_cache, user_profile_cache, calls, timing_stats>>

DeleteUserPersonVoices(user_id, person_name, fault) ==
    /\ LET r == delete_user_person_voices(St, user_id, person_name, fault)
       IN  /\ SetSt(r.st)
           /\ last' = [op |-> "delete_user_person_voices", user_id |-> user_id,
                       person_name |-> person_name, ret |-> r.ret]
    /\ UNCHANGED <<now, feature_cache, user_profile_cache, calls, timing_stats>>

GetUserPersons(user_id, fault) ==
    /\ SetSt(get_user_persons(St, now, user_id, fault).st)
    /\ UNCHANGED <<now, feature_cache, user_profile_cache, last, calls,
                   timing_stats>>

GetUserStats(user_id, fault) ==
    /\ SetSt(get_user_stats(St, now, user_id, fault).st)
    /\ UNCHANGED <<now, feature_cache, user_profile_cache, last, calls,
                   timing_stats>>

ClearAll(fault, survivors) ==
    /\ resets < MaxResets
    /\ LET r == clear_all(St, fault, survivors)
       IN  /\ SetSt(r.st)
           /\ last' = [op |-> "clear_all", ret |-> r.ret]
    /\ UNCHANGED <<now, feature_cache, user_profile_cache, calls, timing_stats>>

(***************************************************************************)
(* Spec: the store with two tenants, two person names, a self and a        *)
(* non-self relationship, and no clock.  The first tenant registers every  *)
(* name under every relationship, the second tenant one name.             *)
(***************************************************************************)
Users == {"u1", "t_2"}
Names == {"Bob", "Al"}
Rels == {"SELF", "friend"}
Adds ==
    ({"u1"} \X Names \X {<<5, 0>>} \X Rels) \cup ({"t_2"} \X {"Bob"} \X {<<5, 0>>} \X Rels)

Next ==
    \/ \E a \in Adds : AddVoiceFeature(a[1], a[2], a[3], a[4], "none")
    \/ \E u \in Users : GetUserAllFeatures(u, "none")
    \/ \E u \in Users \cup {None} : FindMostSimilar(<<5, 0>>, u, 60, 10, "none")
    \/ \E u \in Users : DeleteUserAllVoices(u, "none")
    \/ \E u \in Users, p \in Names : DeleteUserPersonVoices(u, p, "none")
    \/ \E u \in Users : GetUserPersons(u, "none")
    \/ \E u \in Users \cup {None} : GetUserStats(u, "none")
    \/ ClearAll("none", {})

Spec == Init /\ [][Next]_vars

(***************************************************************************)
(* What the claims speak of, stated on the client's data alone: the        *)
(* records a tenant holds are the records, in whatever collection, that    *)
(* were added with that tenant's id.                                       *)
(***************************************************************************)
RecordsIn(C) == UNION {{C[n].records[i] : i \in 1..Len(C[n].records)} : n \in DOMAIN C}
AllRecords == RecordsIn(collections)
HeldBy(user_id) == {r \in AllRecords : r.metadata.user_id = user_id}

\* The relationship labels that mark the tenant's own voice, in the letter
\* cases the inputs use
SelfRelationships == {"self", "SELF", "Self", "me", "ME", "Me", BenRen}
IsSelfRecord(r) == r.metadata.relationship \in SelfRelationships
SelfOf(user_id) == {r \in HeldBy(user_id) : IsSelfRecord(r)}
OthersOf(user_id) == {r \in HeldBy(user_id) : ~IsSelfRecord(r)}
OthersNamed(user_id, person_name) ==
    {r \in OthersOf(user_id) : r.metadata.person_name = person_name}

\* The embeddings of a set of records as a bag
EmbeddingBag(rs) ==
    [e \in {r.embedding : r \in rs} |-> Cardinality({r \in rs : r.embedding = e})]
SeqBag(seq) ==
    [e \in {seq[i] : i \in 1..Len(seq)} |->
        Cardinality({i \in 1..Len(seq) : seq[i] = e})]

(***************************************************************************)
(* C2.  After a successful add_voice_feature(T, P, V, relationship) with a *)
(* non-self relationship, get_user_all_features(T) has exactly one group   *)
(* for P, holding V and every other vector of the records T still holds    *)
(* for P.                                                                  *)
(***************************************************************************)
C2_RoundTripOneGroupPerPerson ==
    (last.op = "add_voice_feature" /\ ~last.exc
        /\ \E r \in OthersNamed(last.user_id, last.person_name) : r.id = last.ret)
    => LET groups == get_user_all_features(St, last.user_id, "none").ret
           mine == EmbeddingBag(OthersNamed(last.user_id, last.person_name))
           persons == {r.metadata.person_name : r \in OthersOf(last.user_id)}
       IN  /\ \E k \in DOMAIN groups : SeqBag(groups[k]) = mine
           /\ Cardinality(DOMAIN groups) =
                 Cardinality(persons) + (IF SelfOf(last.user_id) = {} THEN 0 ELSE 1)

(***************************************************************************)
(* C6.  A delete_user_all_voices(T) returns the number of records T holds  *)
(* and leaves T without records; called again directly after a            *)
(* delete_user_all_voices(T), it returns 0; for a tenant without records   *)
(* it returns 0.                                                           *)
(***************************************************************************)
C6_DeleteAllIdempotent ==
    [][\A u \in Users :
          (/\ last'.op = "delete_user_all_voices" /\ last'.user_id = u
           /\ DeleteUserAllVoices(u, "none"))
          => /\ last'.ret = Cardinality(HeldBy(u))
             /\ HeldBy(u)' = {}
             /\ (last.op = "delete_user_all_voices" /\ last.user_id = u
                    => last'.ret = 0)]_vars

C6_Witness ==
    /\ last.op = "delete_user_all_voices"
    /\ last.ret >= 2
    /\ HeldBy(last.user_id) = {}
    /\ \E u \in Users : HeldBy(u) # {}

(***************************************************************************)
(* C7.  delete_user_person_voices(T, P) deletes exactly the records of T   *)
(* named P that are not self records and returns their number; every other *)
(* record stays; afterwards get_user_persons(T) lists the persons it       *)
(* listed before, without P.                                               *)
(***************************************************************************)
ListedNames(persons) == {persons[i].person_name : i \in 1..Len(persons)}

C7_DeleteByPersonFrame ==
    [][\A u \in Users, p \in Names :
          (/\ last'.op = "delete_user_person_voices"
           /\ last'.user_id = u /\ last'.person_name = p
           /\ DeleteUserPersonVoices(u, p, "none"))
          => /\ AllRecords' = AllRecords \ OthersNamed(u, p)
             /\ last'.ret = Cardinality(OthersNamed(u, p))
             /\ ListedNames(get_user_persons(St, now, u, "none").ret)' =
                   ListedNames(get_user_persons(St, now, u, "none").ret) \ {p}]_vars

C7_Witness ==
    /\ last.op = "delete_user_person_voices"
    /\ last.ret >= 1
    /\ \E r \in SelfOf(last.user_id) : r.metadata.person_name = last.person_name
    /\ ListedNames(get_user_persons(St, now, last.user_id, "none").ret) # {}

(***************************************************************************)
(* C8.  get_user_stats(T) counts exactly: user_audio_count the self        *)
(* records of T, total_persons the distinct names among T's other records, *)
(* total_audio_features all records of T.                                  *)
(***************************************************************************)
C8_TenantStatsExact ==
    \A u \in Users :
        LET stats == get_user_stats(St, now, u, "none").ret
        IN  /\ stats.user_audio_count = Cardinality(SelfOf(u))
            /\ stats.total_persons =
                  Cardinality({r.metadata.person_name : r \in OthersOf(u)})
            /\ stats.total_audio_features = Cardinality(HeldBy(u))

C8_Witness ==
    \E u \in Users :
        LET stats == get_user_stats(St, now, u, "none").ret
        IN  /\ stats.user_audio_count = 1
            /\ stats.total_persons = 2
            /\ stats.total_audio_features = 3

(***************************************************************************)
(* C15.  Only add_voice_feature brings a collection into existence: a step *)
(* of any other method leaves the set of collections as it was or smaller. *)
(***************************************************************************)
C15_TenantsOnlyByInsertion ==
    [][(\E a \in Adds : AddVoiceFeature(a[1], a[2], a[3], a[4], "none"))
          \/ DOMAIN collections' \subseteq DOMAIN collections]_vars

(***************************************************************************)
(* C24.  get_user_stats() without a tenant reports total_users = the       *)
(* number of tenants with a collection, total_audio_features = the number  *)
(* of records of all tenants, and total_persons = the sum over the tenants *)
(* of: 0 without non-self records, 1 with both self and non-self records,  *)
(* the number of distinct non-self names otherwise.                        *)
(***************************************************************************)
KnownTenants == {u \in Users : CollectionName(u) \in DOMAIN collections}

PersonsUnit(u) ==
    IF OthersOf(u) = {} THEN 0
    ELSE IF SelfOf(u) # {} THEN 1
    ELSE Cardinality({r.metadata.person_name : r \in OthersOf(u)})

RECURSIVE SumPersonsUnits(_)
SumPersonsUnits(tenants) ==
    IF tenants = {} THEN 0
    ELSE LET u == CHOOSE x \in tenants : TRUE
         IN  PersonsUnit(u) + SumPersonsUnits(tenants \ {u})

C24_GlobalStats ==
    LET stats == get_user_stats(St, now, None, "none").ret
    IN  /\ stats.total_users = Cardinality(KnownTenants)
        /\ stats.total_audio_features = Cardinality(AllRecords)
        /\ stats.total_persons = SumPersonsUnits(KnownTenants)

(***************************************************************************)
(* C25.  The tenant ids recovered by enumerating the storage are exactly   *)
(* the ids of the tenants that have a collection, and get_storage_info     *)
(* reports their number as total_users.                                    *)
(***************************************************************************)
C25_TenantRediscovery ==
    /\ EnumeratedUserIds(St) = KnownTenants
    /\ get_storage_info(St).total_users = Cardinality(KnownTenants)

(***************************************************************************)
(* SpecSearch: the store with embeddings at several distances from the     *)
(* queries, three tenants (one of them the empty id) and no clock.  The    *)
(* first tenant registers every embedding, the others the farthest one.    *)
(***************************************************************************)
UsersS == {"u1", "t_2", ""}
VectorsS == {<<5, 0>>, <<3, 4>>, <<0, 5>>}
QueriesS == {<<5, 0>>, <<0, 5>>}
ThresholdsS == {0, 60, 90, 100}
TopKsS == {0, 1, 2, 10}

NextSearch ==
    \/ \E a \in ({"u1"} \X {"Bob"} \X VectorsS \X {"friend"})
                    \cup ({"t_2", ""} \X {"Bob"} \X {<<0, 5>>} \X {"friend"}) :
          AddVoiceFeature(a[1], a[2], a[3], a[4], "none")
    \/ \E u \in UsersS : GetUserAllFeatures(u, "none")
    \/ \E u \in UsersS \cup {None} : FindMostSimilar(<<5, 0>>, u, 60, 10, "none")
    \/ \E u \in UsersS : DeleteUserAllVoices(u, "none")
    \/ \E u \in UsersS : DeleteUserPersonVoices(u, "Bob", "none")
    \/ ClearAll("none", {})

SpecSearch == Init /\ [][NextSearch]_vars

\* The similarity of a stored record to a query, from the index's distance
SimilarityTo(r, q) == Similarity(CosineDistance(r.embedding, q))

\* Number of embeddings in a grouped result
GroupTotal(groups) ==
    Cardinality(UNION {{<<k, i>> : i \in 1..Len(groups[k])} : k \in DOMAIN groups})

(***************************************************************************)
(* C1.  Tenant isolation: whatever find_most_similar(user_id=T2) returns   *)
(* is a record added under T2, and get_user_all_features(T2) holds the     *)
(* embeddings of the records added under T2 and nothing else.              *)
(***************************************************************************)
C1_TenantIsolation ==
    \A t2 \in UsersS :
        /\ \A q \in QueriesS, th \in ThresholdsS, k \in TopKsS :
              LET found == find_most_similar(St, q, t2, th, k, "none").ret
              IN  \A i \in 1..Len(found) :
                     \E r \in HeldBy(t2) : r.id = found[i].voice_id
        /\ LET groups == get_user_all_features(St, t2, "none").ret
           IN  /\ GroupTotal(groups) = Cardinality(HeldBy(t2))
               /\ \A k \in DOMAIN groups : \A i \in 1..Len(groups[k]) :
                     \E r \in HeldBy(t2) : r.embedding = groups[k][i]

C1_Witness ==
    \E t1 \in UsersS, t2 \in UsersS :
        /\ t1 # t2
        /\ HeldBy(t1) # {}
        /\ \E r1 \in HeldBy(t1) : \A r2 \in HeldBy(t2) : r1.embedding # r2.embedding
        /\ Len(find_most_similar(St, <<5, 0>>, t2, 0, 10, "none").ret) = 2
        /\ GroupTotal(get_user_all_features(St, t2, "none").ret) = 2

(***************************************************************************)
(* C9.  What find_most_similar returns has at most top_k entries, each of  *)
(* similarity >= threshold, in order of non-increasing similarity.         *)
(***************************************************************************)
C9_SearchResultShape ==
    \A q \in QueriesS, u \in UsersS \cup {None}, th \in ThresholdsS, k \in TopKsS :
        LET found == find_most_similar(St, q, u, th, k, "none").ret
        IN  /\ Len(found) <= k
            /\ \A i \in 1..Len(found) : found[i].similarity >= th
            /\ \A i \in 1..Len(found) : \A j \in i..Len(found) :
                  found[i].similarity >= found[j].similarity

C9_Witness ==
    \E u \in UsersS :
        /\ Len(find_most_similar(St, <<5, 0>>, u, 0, 10, "none").ret) = 3
        /\ Len(find_most_similar(St, <<5, 0>>, u, 60, 10, "none").ret) = 2
        /\ Len(find_most_similar(St, <<5, 0>>, u, 60, 1, "none").ret) = 1
        /\ find_most_similar(St, <<5, 0>>, u, 100, 10, "none").ret = <<>>

(***************************************************************************)
(* C10.  With user_id omitted every tenant that holds a record is          *)
(* searched: a record of any tenant whose similarity is >= threshold and   *)
(* that is among the top_k most similar records overall is returned.       *)
(***************************************************************************)
C10_FanOutCoversEveryTenant ==
    \A q \in QueriesS, th \in ThresholdsS, k \in TopKsS :
        LET found == find_most_similar(St, q, None, th, k, "none").ret
        IN  \A r \in AllRecords :
               (/\ SimilarityTo(r, q) >= th
                /\ Cardinality({r2 \in AllRecords :
                                   SimilarityTo(r2, q) >= SimilarityTo(r, q)}) <= k)
               => \E i \in 1..Len(found) : found[i].voice_id = r.id

(***************************************************************************)
(* The candidates a search over all tenants has to pool: for every tenant  *)
(* of `tenants` that holds records, the hits of its own collection (at     *)
(* most top_k) that reach the threshold.                                   *)
(***************************************************************************)
RECURSIVE PoolOf(_, _, _, _)
PoolOf(tenants, q, th, k) ==
    IF tenants = <<>> THEN <<>>
    ELSE QueryCollection(St, q, Head(tenants), th, k, "none").ret
            \o PoolOf(Tail(tenants), q, th, k)

Holders == {u \in UsersS : HeldBy(u) # {}}

Similarities(ms) == [i \in 1..Len(ms) |-> ms[i].similarity]

VoiceIdsIn(ms) == {ms[i].voice_id : i \in 1..Len(ms)}

(***************************************************************************)
(* C11.  With user_id omitted the result is a global top-k: it has the     *)
(* similarities of the top_k best of the pooled candidates of all tenants, *)
(* in descending order, and every entry is one of the pooled candidates.   *)
(***************************************************************************)
C11_FanOutMergeGlobalTopK ==
    \A q \in QueriesS, th \in ThresholdsS, k \in TopKsS :
        LET found == find_most_similar(St, q, None, th, k, "none").ret
            pool == PoolOf(SetToSeq(Holders), q, th, k)
            best == SliceTo(SortBySimilarityDesc(pool), k)
        IN  /\ Similarities(found) = Similarities(best)
            /\ VoiceIdsIn(found) \subseteq VoiceIdsIn(pool)

(***************************************************************************)
(* C37.  For every string given as user_id, the empty string included,     *)
(* find_most_similar returns what the query of that tenant's collection    *)
(* gives and get_user_stats returns the statistics of that tenant; stated  *)
(* for the tenants that hold records.                                      *)
(***************************************************************************)
C37_SuppliedTenantSingleMode ==
    \A u \in {x \in UsersS : HeldBy(x) # {}} :
        LET found == find_most_similar(St, <<0, 5>>, u, 60, 10, "none").ret
            own == QueryCollection(St, <<0, 5>>, u, 60, 10, "none").ret
            stats == get_user_stats(St, now, u, "none").ret
        IN  /\ VoiceIdsIn(found) = VoiceIdsIn(own)
            /\ "user_id" \in DOMAIN stats
            /\ stats.user_id = u
            /\ stats.total_audio_features = Cardinality(HeldBy(u))

(***************************************************************************)
(* SpecThreshold: two tenants, the first with records from identical to   *)
(* opposite to the query.                                                  *)
(***************************************************************************)
NextThreshold ==
    \/ \E a \in ({"u1"} \X {"Bob"} \X VectorsS \X {"friend"})
                    \cup {<<"u1", "Bob", <<-5, 0>>, "friend">>,
                          <<"t_2", "Bob", <<0, 5>>, "friend">>} :
          AddVoiceFeature(a[1], a[2], a[3], a[4], "none")
    \/ \E u \in Users \cup {None} : FindMostSimilar(<<5, 0>>, u, 60, 10, "none")
    \/ \E u \in Users : DeleteUserAllVoices(u, "none")

SpecThreshold == Init /\ [][NextThreshold]_vars

(***************************************************************************)
(* C12.  Threshold monotonicity: for the same store, query, user_id (given *)
(* or omitted) and top_k, what find_most_similar returns at a threshold is *)
(* contained in what it returns at any lower threshold.                    *)
(***************************************************************************)
C12_ThresholdMonotone ==
    \A q \in QueriesS, u \in Users \cup {None}, k \in TopKsS :
        LET ids == [t \in ThresholdsS |->
                       VoiceIdsIn(find_most_similar(St, q, u, t, k, "none").ret)]
        IN  \A t1 \in ThresholdsS, t2 \in ThresholdsS :
                t1 < t2 => ids[t2] \subseteq ids[t1]

\* a tenant whose three records are all hits at the lowest threshold, with
\* fewer and fewer of them left as the threshold rises
C12_Witness ==
    \E u \in Users :
        /\ Cardinality(VoiceIdsIn(find_most_similar(St, <<5, 0>>, u, 0, 10, "none").ret)) = 3
        /\ Cardinality(VoiceIdsIn(find_most_similar(St, <<5, 0>>, u, 60, 10, "none").ret)) = 2
        /\ Cardinality(VoiceIdsIn(find_most_similar(St, <<5, 0>>, u, 90, 10, "none").ret)) = 1
        /\ Cardinality(VoiceIdsIn(find_most_similar(St, <<5, 0>>, u, 0, 2, "none").ret)) = 2

(***************************************************************************)
(* C28.  Every match find_most_similar returns carries the index's cosine  *)
(* distance d of its record to the query and similarity = 1 - d/2; d is in *)
(* [0, 2] and the similarity in [0, 1], 1 exactly for a record identical   *)
(* to the query; of two matches the nearer one has the higher similarity,  *)
(* and the matches are returned in order of ascending distance.            *)
(***************************************************************************)
C28_SimilarityMapping ==
    \A q \in QueriesS, u \in Users, k \in TopKsS :
        LET found == find_most_similar(St, q, u, 0, k, "none").ret
        IN  /\ \A i \in 1..Len(found) :
                  /\ \E r \in HeldBy(u) :
                        /\ r.id = found[i].voice_id
                        /\ found[i].distance = CosineDistance(r.embedding, q)
                        /\ (found[i].similarity = 100 <=> r.embedding = q)
                  /\ 2 * found[i].similarity = 200 - found[i].distance
                  /\ found[i].distance \in 0..200
                  /\ found[i].similarity \in 0..100
            /\ \A i \in 1..Len(found), j \in 1..Len(found) :
                  /\ found[i].distance < found[j].distance
                        <=> found[i].similarity > found[j].similarity
                  /\ i < j => found[i].distance <= found[j].distance

\* matches at similarity 1, between 0 and 1, and 0
C28_Witness ==
    \E u \in Users :
        LET found == find_most_similar(St, <<5, 0>>, u, 0, 10, "none").ret
        IN  /\ Len(found) = 3
            /\ found[1].similarity = 100
            /\ found[2].similarity \in 1..99
            /\ found[3].similarity = 0

(***************************************************************************)
(* C13.  With user_id omitted and the query of one tenant's collection     *)
(* raising, the call still returns the candidates of the other tenants:    *)
(* every record of another tenant that reaches the threshold and is among  *)
(* the top_k most similar records of the other tenants is returned.        *)
(***************************************************************************)
C13_FanOutFailureIsolation ==
    \A x \in UsersS, q \in QueriesS, th \in ThresholdsS, k \in TopKsS :
        LET found == find_most_similar(St, q, None, th, k, QueryFault(x)).ret
            others == AllRecords \ HeldBy(x)
        IN  \A r \in others :
               (/\ SimilarityTo(r, q) >= th
                /\ Cardinality({r2 \in others :
                                   SimilarityTo(r2, q) >= SimilarityTo(r, q)}) <= k)
               => \E i \in 1..Len(found) : found[i].voice_id = r.id

(***************************************************************************)
(* SpecSelf: one tenant, records added under relationship labels in        *)
(* several letter cases.                                                   *)
(***************************************************************************)
NextSelf ==
    \/ \E r \in SelfRelationships
                    \cup {"friend", "FRIEND", "myself", "selfie", PengYou, ""} :
          AddVoiceFeature("u1", "Bob", <<5, 0>>, r, "none")
    \/ DeleteUserPersonVoices("u1", "Bob", "none")
    \/ DeleteUserAllVoices("u1", "none")

SpecSelf == Init /\ [][NextSelf]_vars

(***************************************************************************)
(* C3.  The stored self flag of every record is true exactly when the      *)
(* record's relationship is a reserved self label in any letter case.      *)
(***************************************************************************)
C3_SelfDerivation ==
    \A r \in AllRecords : (r.metadata.is_user = "True") <=> IsSelfRecord(r)

C3_Witness ==
    /\ \E r \in AllRecords : r.metadata.relationship = "self" /\ r.metadata.is_user = "True"
    /\ \E r \in AllRecords : r.metadata.relationship = "SELF" /\ r.metadata.is_user = "True"
    /\ \E r \in AllRecords : r.metadata.relationship = "friend" /\ r.metadata.is_user = "False"

(***************************************************************************)
(* ChromaVoicePredictor.  `pr` is the predictor with its storage:          *)
(* [st, feature_cache, user_profile_cache]; feature_cache maps a user_id   *)
(* to a dict person_key -> [features, timestamp].                          *)
(***************************************************************************)
\* base_predictor.predict(audio_data): the embedding model, an opaque map
\* from a recording to its embedding
Predict(audio_data) ==
    CASE audio_data = "near.wav" -> <<5, 0>>
      [] audio_data = "mid.wav" -> <<3, 4>>
      [] OTHER -> <<0, 5>>

_is_cache_valid(timestamp, t) == (t - timestamp) < cache_timeout

_get_cached_features(fc, t, user_id) ==
    IF ~lazy_load THEN EmptyDict
    ELSE LET cached_user == IF user_id \in DOMAIN fc THEN fc[user_id] ELSE EmptyDict
         IN  IF DOMAIN cached_user = {} THEN EmptyDict
             ELSE [k \in {k \in DOMAIN cached_user :
                            _is_cache_valid(cached_user[k].timestamp, t)} |->
                     cached_user[k].features]

_cache_features(fc, t, user_id, features_by_person) ==
    IF ~lazy_load THEN fc
    ELSE LET old == IF user_id \in DOMAIN fc THEN fc[user_id] ELSE EmptyDict
             new == [k \in DOMAIN features_by_person |->
                        [features |-> features_by_person[k], timestamp |-> t]]
         IN  (user_id :> (new @@ old)) @@ fc

\* del d[user_id], when it is there
Without(d, user_id) == [u \in DOMAIN d \ {user_id} |-> d[u]]

_clear_user_cache_not(pr, user_id) == pr
_clear_user_cache_of_all(pr, user_id) ==
    [pr EXCEPT !.feature_cache = [u \in {} |-> <<>>],
               !.user_profile_cache = [u \in {} |-> <<>>]]
_clear_user_cache(pr, user_id) ==
    [pr EXCEPT !.feature_cache = Without(@, user_id),
               !.user_profile_cache = Without(@, user_id)]

register_user_voice_evict_first(pr, t, user_id, person_name, audio_data, relationship, fault) ==
    LET p0 == _clear_user_cache(pr, user_id)
    IN  IF fault = "predict" THEN [pr |-> p0, ret |-> FALSE]
        ELSE LET a == add_voice_feature(p0.st, t, user_id, person_name,
                                        Predict(audio_data), relationship, fault)
             IN  [pr |-> [p0 EXCEPT !.st = a.st], ret |-> ~a.exc]
register_user_voice(pr, t, user_id, person_name, audio_data, relationship, fault) ==
    IF fault = "predict" THEN [pr |-> pr, ret |-> FALSE]
    ELSE LET a == add_voice_feature(pr.st, t, user_id, person_name,
                                    Predict(audio_data), relationship, fault)
         IN  IF a.exc THEN [pr |-> [pr EXCEPT !.st = a.st], ret |-> FALSE]
             ELSE [pr |-> _clear_user_cache([pr EXCEPT !.st = a.st], user_id),
                   ret |-> TRUE]

delete_user_reports_done(pr, user_id, fault) ==
    LET d == delete_user_all_voices(pr.st, user_id, fault)
    IN  [pr |-> _clear_user_cache([pr EXCEPT !.st = d.st], user_id),
         ret |-> d.ret >= 0]
delete_user_no_evict(pr, user_id, fault) ==
    LET d == delete_user_all_voices(pr.st, user_id, fault)
    IN  [pr |-> [pr EXCEPT !.st = d.st], ret |-> d.ret > 0]
delete_user(pr, user_id, fault) ==
    LET d == delete_user_all_voices(pr.st, user_id, fault)
    IN  [pr |-> _clear_user_cache([pr EXCEPT !.st = d.st], user_id),
         ret |-> d.ret > 0]

\* sep.join(parts)
RECURSIVE join(_, _)
join(parts, sep) ==
    IF parts = <<>> THEN ""
    ELSE IF Len(parts) = 1 THEN parts[1]
    ELSE parts[1] \o sep \o join(Tail(parts), sep)

\* The person_name delete_person takes from a person_id
PersonNameOf(person_id) ==
    LET parts == split(person_id, "_")
    IN  IF Len(parts) >= 3 THEN join(SubSeq(parts, 2, Len(parts) - 1), "_")
        ELSE person_id

delete_person(pr, user_id, person_id, fault) ==
    LET d == delete_user_person_voices(pr.st, user_id, PersonNameOf(person_id), fault)
    IN  [pr |-> _clear_user_cache([pr EXCEPT !.st = d.st], user_id),
         ret |-> d.ret > 0]

clear_cache(pr) ==
    [pr EXCEPT !.feature_cache = [u \in {} |-> <<>>],
               !.user_profile_cache = [u \in {} |-> <<>>]]

clear_all_data(pr, fault, survivors) ==
    LET c == clear_all(pr.st, fault, survivors)
    IN  [pr |-> clear_cache([pr EXCEPT !.st = c.st]), ret |-> c.ret]

\* RecognitionResult(success=False, ...); the fields left out are None
NoRecognition(confidence) ==
    [success |-> FALSE, user_id |-> None, voice_id |-> None, person_name |-> None,
     is_user |-> None, confidence |-> confidence, similarity |-> None,
     distance |-> None]

\* RecognitionResult(success=True, ...) of best_match
Recognition(best_match) ==
    [success |-> TRUE, user_id |-> best_match.user_id,
     voice_id |-> best_match.voice_id, person_name |-> best_match.person_name,
     is_user |-> best_match.is_user, confidence |-> best_match.similarity,
     similarity |-> best_match.similarity, distance |-> best_match.distance]

recognize_user_voice_last(pr, audio_data, threshold, target_user_id, fault) ==
    IF fault = "predict" THEN [pr |-> pr, ret |-> NoRecognition(None)]
    ELSE LET f == find_most_similar(pr.st, Predict(audio_data), target_user_id,
                                    threshold, 10, fault)
         IN  [pr |-> [pr EXCEPT !.st = f.st],
              ret |-> IF f.ret # <<>> THEN Recognition(f.ret[Len(f.ret)])
                      ELSE NoRecognition(0)]
recognize_user_voice(pr, audio_data, threshold, target_user_id, fault) ==
    IF fault = "predict" THEN [pr |-> pr, ret |-> NoRecognition(None)]
    ELSE LET similar_results ==
                 find_most_similar(pr.st, Predict(audio_data), target_user_id,
                                   threshold, 10, fault)
         IN  [pr |-> [pr EXCEPT !.st = similar_results.st],
              ret |-> IF similar_results.ret # <<>>
                      THEN Recognition(similar_results.ret[1])
                      ELSE NoRecognition(0)]

(***************************************************************************)
(* The predictor as a state machine: one action per public method, as the  *)
(* API handlers of app/main.py call them, and the refill of the read cache *)
(* after a miss.                                                           *)
(***************************************************************************)
Pr == [st |-> St, feature_cache |-> feature_cache,
       user_profile_cache |-> user_profile_cache]

SetPr(pr) ==
    /\ SetSt(pr.st)
    /\ feature_cache' = pr.feature_cache
    /\ user_profile_cache' = pr.user_profile_cache

\* cache_timeout seconds pass
Expire ==
    /\ now < MaxTime * cache_timeout
    /\ now' = now + cache_timeout
    /\ UNCHANGED <<collections, collections_cache, resets, uuid_seq,
                   feature_cache, user_profile_cache, last, calls,
                   timing_stats>>

RegisterUserVoice(user_id, person_name, audio_data, relationship, fault) ==
    /\ uuid_seq < MaxRecords
    /\ LET r == register_user_voice(Pr, now, user_id, person_name, audio_data,
                                    relationship, fault)
       IN  /\ SetPr(r.pr)
           /\ last' = [op |-> "register_user_voice", user_id |-> user_id,
                       person_name |-> person_name, ret |-> r.ret]
    /\ UNCHANGED <<now, calls, timing_stats>>

DeleteUser(user_id, fault) ==
    /\ LET r == delete_user(Pr, user_id, fault)
       IN  /\ SetPr(r.pr)
           /\ last' = [op |-> "delete_user", user_id |-> user_id, ret |-> r.ret]
    /\ UNCHANGED <<now, calls, timing_stats>>

DeletePerson(user_id, person_id, fault) ==
    /\ LET r == delete_person(Pr, user_id, person_id, fault)
       IN  /\ SetPr(r.pr)
           /\ last' = [op |-> "delete_person", user_id |-> user_id,
                       person_id |-> person_id, ret |-> r.ret]
    /\ UNCHANGED <<now, calls, timing_stats>>

ClearAllData(fault, survivors) ==
    /\ resets < MaxResets
    /\ LET r == clear_all_data(Pr, fault, survivors)
       IN  /\ SetPr(r.pr)
           /\ last' = [op |-> "clear_all_data", ret |-> r.ret]
    /\ UNCHANGED <<now, calls, timing_stats>>

RecognizeUserVoice(audio_data, threshold, target_user_id, fault) ==
    /\ LET r == recognize_user_voice(Pr, audio_data, threshold, target_user_id, fault)
       IN  /\ SetPr(r.pr)
           /\ last' = [op |-> "recognize_user_voice", audio_data |-> audio_data,
                       threshold |-> threshold, target_user_id |-> target_user_id,
                       fault |-> fault, ret |-> r.ret]
    /\ UNCHANGED <<now, calls, timing_stats>>

\* A read of the tenant's grouped features through the cache: on a miss the
\* caller fetches them from the storage and puts them into the cache.
Refill(user_id) ==
    /\ DOMAIN _get_cached_features(feature_cache, now, user_id) = {}
    /\ LET g == get_user_all_features(St, user_id, "none")
       IN  /\ SetSt(g.st)
           /\ feature_cache' = _cache_features(feature_cache, now, user_id, g.ret)
    /\ last' = [op |-> "refill", user_id |-> user_id]
    /\ UNCHANGED <<now, user_profile_cache, calls, timing_stats>>

(***************************************************************************)
(* SpecPredictor: two tenants behind the predictor, the clock running past *)
(* the cache's time to live.  The first tenant registers a friend          *)
(* recording, the second a self and a friend recording.                    *)
(***************************************************************************)
AddsP ==
    {<<"t_2", "Bob", "near.wav", "SELF">>, <<"t_2", "Bob", "near.wav", "friend">>,
     <<"u1", "Bob", "near.wav", "friend">>}

NextPredictor ==
    \/ Expire
    \/ \E a \in AddsP : RegisterUserVoice(a[1], a[2], a[3], a[4], "none")
    \/ \E u \in Users : DeleteUser(u, "none")
    \/ \E u \in Users : DeletePerson(u, PersonId(u, "Bob", now), "none")
    \/ \E u \in Users : Refill(u)
    \/ ClearAllData("none", {})

SpecPredictor == Init /\ [][NextPredictor]_vars

(***************************************************************************)
(* C4.  When a successful register_user_voice, a delete_user or a          *)
(* delete_person for tenant T has returned, neither cache holds an entry   *)
(* for T.                                                                  *)
(***************************************************************************)
C4_MutationEvictsTenant ==
    (\/ (last.op = "register_user_voice" /\ last.ret)
     \/ last.op = "delete_user"
     \/ last.op = "delete_person")
    => /\ last.user_id \notin DOMAIN feature_cache
       /\ last.user_id \notin DOMAIN user_profile_cache

\* delete_person found nothing to delete for a tenant that holds records of
\* two groups, while another tenant's entry stays cached
C4_Witness ==
    /\ last.op = "delete_person"
    /\ ~last.ret
    /\ last.user_id \notin DOMAIN feature_cache
    /\ Cardinality(DOMAIN get_user_all_features(St, last.user_id, "none").ret) >= 2
    /\ \E u \in DOMAIN feature_cache : DOMAIN feature_cache[u] # {}

C30_WholeStoreReset ==
    [][(last.op = "clear_all_data" /\ last.ret)
       => /\ DOMAIN collections = {}
          /\ DOMAIN collections_cache = {}
          /\ DOMAIN feature_cache = {}
          /\ DOMAIN user_profile_cache = {}
          /\ \A u \in Users :
                /\ get_user_all_features(St, u, "none").ret = EmptyDict
                /\ LET stats == get_user_stats(St, now, u, "none").ret
                   IN  /\ stats.user_audio_count = 0
                       /\ stats.total_persons = 0
                       /\ stats.total_audio_features = 0
                       /\ stats.persons_detail = <<>>
          /\ \A a \in AddsP :
                RegisterUserVoice(a[1], a[2], a[3], a[4], "none")
                => /\ last'.ret
                   /\ Cardinality(RecordsIn(collections')) = 1
                   /\ LET after == [collections |-> collections',
                                    collections_cache |-> collections_cache',
                                    resets |-> resets', uuid_seq |-> uuid_seq']
                          groups == get_user_all_features(after, a[1], "none").ret
                      IN  /\ GroupTotal(groups) = 1
                          /\ \A k \in DOMAIN groups : groups[k] = <<Predict(a[3])>>]_vars

\* after a reset both tenants have registered again, through handles of
\* collections created after the reset
C30_Witness ==
    /\ resets = 1
    /\ last.op = "register_user_voice"
    /\ last.ret
    /\ \A u \in Users :
          /\ HeldBy(u) # {}
          /\ u \in DOMAIN collections_cache
          /\ collections_cache[u].cid = 1
          /\ DOMAIN get_user_all_features(St, u, "none").ret # {}

(***************************************************************************)
(* C29.  delete_person(T, person_id) with a person_id that                 *)
(* get_user_persons(T) returns for person P returns success and leaves T   *)
(* without non-self records of P, and the name the method takes from the   *)
(* id is P.                                                                *)
(***************************************************************************)
C29_PersonIdRoundTrip ==
    [][\A u \in Users :
          LET ps == get_user_persons(St, now, u, "none").ret
          IN  \A i \in 1..Len(ps) :
                 (/\ last'.op = "delete_person" /\ last'.user_id = u
                  /\ DeletePerson(u, ps[i].person_id, "none"))
                 => /\ last'.ret
                    /\ OthersNamed(u, ps[i].person_name)' = {}
                    /\ PersonNameOf(ps[i].person_id) = ps[i].person_name]_vars

(***************************************************************************)
(* _get_user_collection statement by statement, for threads that are in it *)
(* at the same time.  The handlers of app/main.py are coroutines of one    *)
(* event loop and the method never awaits, so the server runs it without   *)
(* interruption; the steps below allow every interleaving of its           *)
(* statements, which includes the server's.                                *)
(***************************************************************************)
\* a request enters _get_user_collection(user_id)
RouterCall(w, user_id) ==
    /\ calls[w] = Idle
    /\ calls' = [calls EXCEPT ![w] = [pc |-> "check", user_id |-> user_id]]
    /\ UNCHANGED <<collections, collections_cache, resets, uuid_seq, now,
                   feature_cache, user_profile_cache, last, timing_stats>>

\* if user_id not in self.collections_cache
RouterCheck(w) ==
    /\ calls[w].pc = "check"
    /\ calls' = [calls EXCEPT ![w].pc =
                    IF calls[w].user_id \in DOMAIN collections_cache
                    THEN "return" ELSE "create"]
    /\ UNCHANGED <<collections, collections_cache, resets, uuid_seq, now,
                   feature_cache, user_profile_cache, last, timing_stats>>

\* self.client.get_or_create_collection(name=collection_name, ...)
RouterCreate(w) ==
    /\ calls[w].pc = "create"
    /\ LET r == get_or_create_collection(St, CollectionName(calls[w].user_id))
       IN  /\ SetSt(r.st)
           /\ calls' = [calls EXCEPT ![w] =
                           [pc |-> "store", user_id |-> calls[w].user_id,
                            handle |-> r.handle]]
    /\ UNCHANGED <<now, feature_cache, user_profile_cache, last, timing_stats>>

\* self.collections_cache[user_id] = ...
RouterStore(w) ==
    /\ calls[w].pc = "store"
    /\ collections_cache' = (calls[w].user_id :> calls[w].handle) @@ collections_cache
    /\ calls' = [calls EXCEPT ![w] = [pc |-> "return", user_id |-> calls[w].user_id]]
    /\ UNCHANGED <<collections, resets, uuid_seq, now,
                   feature_cache, user_profile_cache, last, timing_stats>>

\* return self.collections_cache[user_id]
RouterReturn(w) ==
    /\ calls[w].pc = "return"
    /\ last' = [op |-> "_get_user_collection", user_id |-> calls[w].user_id,
                ret |-> collections_cache[calls[w].user_id]]
    /\ calls' = [calls EXCEPT ![w] = Idle]
    /\ UNCHANGED <<collections, collections_cache, resets, uuid_seq, now,
                   feature_cache, user_profile_cache, timing_stats>>

(***************************************************************************)
(* SpecRouter: three threads calling _get_user_collection for two tenants. *)
(***************************************************************************)
NextRouter ==
    \/ \E w \in Threads, u \in Users : RouterCall(w, u)
    \/ \E w \in Threads : RouterCheck(w)
    \/ \E w \in Threads : RouterCreate(w)
    \/ \E w \in Threads : RouterStore(w)
    \/ \E w \in Threads : RouterReturn(w)

SpecRouter == Init /\ [][NextRouter]_vars

\* The one collection of a tenant, as a handle
TheCollection(user_id) ==
    [name |-> CollectionName(user_id),
     cid |-> collections[CollectionName(user_id)].cid]

\* The threads that are in a call for user_id
InCall(user_id) == {w \in Threads : calls[w] # Idle /\ calls[w].user_id = user_id}

(***************************************************************************)
(* C14.  However the first calls of _get_user_collection(T) interleave,    *)
(* T gets one collection: every handle a thread has obtained for T and the *)
(* handle in collections_cache[T] are handles of that collection; once a   *)
(* call for T has stored its handle it stays, so that when no call is in   *)
(* progress every T that was asked for is in the cache, and what a call    *)
(* returns is the cached handle.                                           *)
(***************************************************************************)
C14_RouterIdempotent ==
    \A u \in Users :
        /\ \A w \in InCall(u) :
              calls[w].pc = "store" => calls[w].handle = TheCollection(u)
        /\ u \in DOMAIN collections_cache => collections_cache[u] = TheCollection(u)
        /\ (CollectionName(u) \in DOMAIN collections /\ \A w \in InCall(u) : calls[w].pc = "check")
              => u \in DOMAIN collections_cache
        /\ (last.op = "_get_user_collection" /\ last.user_id = u)
              => last.ret = TheCollection(u)

\* three threads have all found the tenant missing and have each asked the
\* client for the collection, while an earlier call has already returned
C14_Witness ==
    \E u \in Users :
        /\ \A w \in Threads : calls[w] # Idle /\ calls[w].user_id = u
        /\ Cardinality({w \in Threads : calls[w].pc = "store"}) = 2
        /\ \E w \in Threads : calls[w].pc = "return"
        /\ u \in DOMAIN collections_cache

(***************************************************************************)
(* SpecFault: the store and the predictor with client calls that raise.    *)
(* Each step names the one call that raises in it, if any.                 *)
(***************************************************************************)
AddsF == {<<"u1", "Bob", "near.wav", "SELF">>, <<"u1", "Bob", "near.wav", "friend">>,
          <<"t_2", "Bob", "near.wav", "friend">>}
AddFaults == {"none", "get_or_create_collection", "add"}

NextFault ==
    \/ \E a \in AddsF, f \in AddFaults :
          AddVoiceFeature(a[1], a[2], Predict(a[3]), a[4], f)
    \/ \E a \in AddsF, f \in (AddFaults \cup {"predict"}) :
          RegisterUserVoice(a[1], a[2], a[3], a[4], f)
    \/ \E u \in Users : Refill(u)
    \/ \E u \in Users, f \in {"none", "get", "delete"} : DeleteUserAllVoices(u, f)
    \/ \E u \in Users, f \in {"none", "get", "delete"} : DeleteUserPersonVoices(u, "Bob", f)

SpecFault == Init /\ [][NextFault]_vars

\* The records visible in the collection of user_id
InCollectionOf(user_id) ==
    IF CollectionName(user_id) \in DOMAIN collections
    THEN LET recs == collections[CollectionName(user_id)].records
         IN  {recs[i] : i \in 1..Len(recs)}
    ELSE {}

\* Whether add_voice_feature meets the raising call
AddFails(user_id, f) ==
    \/ f = "add"
    \/ f = "get_or_create_collection" /\ user_id \notin DOMAIN collections_cache

C32_FailedResolveLeavesRouter ==
    [][\A a \in AddsF :
          (/\ last'.op = "add_voice_feature"
           /\ a[1] \notin DOMAIN collections_cache
           /\ AddVoiceFeature(a[1], a[2], Predict(a[3]), a[4], "get_or_create_collection"))
          => /\ last'.exc
             /\ collections_cache' = collections_cache
             /\ collections' = collections
             /\ LET after == [collections |-> collections',
                              collections_cache |-> collections_cache',
                              resets |-> resets', uuid_seq |-> uuid_seq']
                    g == _get_user_collection(after, a[1], "none")
                IN  /\ ~g.exc
                    /\ Live(g.st.collections, g.ret)
                    /\ g.ret.name = CollectionName(a[1])
                    /\ g.st.collections_cache[a[1]] = g.ret]_vars

\* an add has failed in the resolve for a tenant without a cached handle
\* while the other tenant's handle is cached
C32_Witness ==
    /\ last.op = "add_voice_feature"
    /\ last.exc
    /\ last.user_id \notin DOMAIN collections_cache
    /\ CollectionName(last.user_id) \notin DOMAIN collections
    /\ \E u \in DOMAIN collections_cache : HeldBy(u) # {}

(***************************************************************************)
(* C17.  When the client's delete raises inside delete_user_all_voices or  *)
(* delete_user_person_voices, the records stay as they are and the caller  *)
(* gets something other than 0, which is what a call that finds nothing to *)
(* delete returns.                                                         *)
(***************************************************************************)
C17_FailedDeleteReported ==
    \A u \in Users :
        LET every == delete_user_all_voices(St, u, "delete")
            person == delete_user_person_voices(St, u, "Bob", "delete")
        IN  /\ HeldBy(u) # {} =>
                  /\ RecordsIn(every.st.collections) = AllRecords
                  /\ every.ret # 0
            /\ OthersNamed(u, "Bob") # {} =>
                  /\ RecordsIn(person.st.collections) = AllRecords
                  /\ person.ret # 0

(***************************************************************************)
(* C18.  When the client raises on a read of a tenant that holds records,  *)
(* get_user_all_features, find_most_similar(user_id=T) and get_user_stats  *)
(* give the caller something other than what they give for a tenant        *)
(* without records: the empty dict, the empty list, the zero statistics.   *)
(***************************************************************************)
C18_ReadErrorsSurfaced ==
    \A u \in Users :
        HeldBy(u) # {} =>
            /\ get_user_all_features(St, u, "get").ret # EmptyDict
            /\ find_most_similar(St, <<5, 0>>, u, 0, 10, "query").ret # <<>>
            /\ get_user_stats(St, now, u, "get").ret # UserStats(<<>>, u, now)

(***************************************************************************)
(* SpecDim: embeddings of the size the embedding model produces and of     *)
(* another size, added for two tenants.                                    *)
(***************************************************************************)
EmbeddingSize == Len(Predict("near.wav"))

NextDim ==
    \/ \E u \in Users, v \in {<<5, 0>>, <<5, 0, 0>>} :
          AddVoiceFeature(u, "Bob", v, "friend", "none")
    \/ \E u \in Users : GetUserAllFeatures(u, "none")
    \/ \E u \in Users : GetUserStats(u, "none")

SpecDim == Init /\ [][NextDim]_vars

(***************************************************************************)
(* C19.  add_voice_feature writes nothing when the embedding has not the   *)
(* size the embedding model produces: no record of another size is ever    *)
(* stored, and an add that has stored a record was given that size.        *)
(***************************************************************************)
C19_DimensionCheckedOnAdd ==
    \A r \in AllRecords : Len(r.embedding) = EmbeddingSize

(***************************************************************************)
(* SpecTime: one tenant whose records are added at different times and     *)
(* under different relationships.                                          *)
(***************************************************************************)
NextTime ==
    \/ Tick
    \/ \E a \in {<<"Bob", "friend">>, <<"Bob", "boss">>, <<"Bob", "SELF">>,
                 <<"Al", "friend">>} :
          AddVoiceFeature("u1", a[1], <<5, 0>>, a[2], "none")
    \/ GetUserPersons("u1", "none")
    \/ DeleteUserPersonVoices("u1", "Al", "none")

SpecTime == Init /\ [][NextTime]_vars

\* The first of the tenant's records, in the collection's order, that is
\* not the tenant's own and carries the name
FirstSeen(user_id, person_name) ==
    LET recs == collections[CollectionName(user_id)].records
        mine == {i \in 1..Len(recs) : recs[i] \in OthersNamed(user_id, person_name)}
    IN  recs[CHOOSE i \in mine : \A j \in mine : i <= j]

NextKey ==
    \/ \E a \in {<<"u1", "user", <<5, 0>>, "SELF">>, <<"u1", "user", <<0, 5>>, "friend">>,
                 <<"u1", "user", <<5, 0>>, "friend">>, <<"u1", "a_b", <<0, 5>>, "friend">>,
                 <<"t_2", "user", <<0, 5>>, "friend">>, <<"t_2", "a_b", <<3, 4>>, "me">>} :
          AddVoiceFeature(a[1], a[2], a[3], a[4], "none")
    \/ \E u \in Users : GetUserAllFeatures(u, "none")
    \/ \E u \in Users : DeleteUserPersonVoices(u, "user", "none")

SpecKey == Init /\ [][NextKey]_vars

(***************************************************************************)
(* C21.  In get_user_all_features(T) the group "user" holds the embeddings *)
(* of T's self records and of no other record; it is absent when T has no  *)
(* self record.                                                            *)
(***************************************************************************)
C21_SelfKeyNeverCollides ==
    \A u \in Users :
        LET groups == get_user_all_features(St, u, "none").ret
        IN  IF SelfOf(u) = {} THEN "user" \notin DOMAIN groups
            ELSE /\ "user" \in DOMAIN groups
                 /\ SeqBag(groups["user"]) = EmbeddingBag(SelfOf(u))

\* a tenant with a self record, a non-self record of a person named "user"
\* and one of a person whose name has an underscore
C21_Witness ==
    \E u \in Users :
        /\ SelfOf(u) # {}
        /\ OthersNamed(u, "user") # {}
        /\ OthersNamed(u, "a_b") # {}
        /\ Len(get_user_all_features(St, u, "none").ret["user"]) = 1

(***************************************************************************)
(* SpecCache: the read cache called directly, with the clock running up to *)
(* and past the time to live.                                              *)
(***************************************************************************)
\* self._cache_features(user_id, features_by_person)
CacheFeatures(user_id, features_by_person) ==
    /\ feature_cache' = _cache_features(feature_cache, now, user_id, features_by_person)
    /\ last' = [op |-> "_cache_features", user_id |-> user_id,
                features_by_person |-> features_by_person, at |-> now]
    /\ UNCHANGED <<collections, collections_cache, resets, uuid_seq, now,
                   user_profile_cache, calls, timing_stats>>


NextCache ==
    \/ Tick
    \/ Expire
    \/ \E u \in Users,
          g \in {("user" :> <<<<5, 0>>>>), ("a3f09c10_Bob" :> <<<<0, 5>>>>),
                 ("user" :> <<<<5, 0>>>>) @@ ("a3f09c10_Bob" :> <<<<0, 5>>, <<3, 4>>>>)} :
          CacheFeatures(u, g)
    \/ \E u \in Users : DeleteUser(u, "none")

SpecCache == Init /\ [][NextCache]_vars

(***************************************************************************)
(* C22.  After _cache_features(T, groups), _get_cached_features(T) returns *)
(* exactly `groups` as long as less than cache_timeout seconds have passed *)
(* since the put, and nothing from then on.                                *)
(***************************************************************************)
C22_CachePutGetTtl ==
    last.op = "_cache_features"
    => LET hit == _get_cached_features(feature_cache, now, last.user_id)
       IN  IF now - last.at < cache_timeout
           THEN hit = last.features_by_person
           ELSE hit = EmptyDict

(***************************************************************************)
(* SpecZero: two tenants that register, delete everything or one person,   *)
(* and resets, so that a tenant is without records in each of the ways:    *)
(* never registered, emptied, or dropped with its collection.              *)
(***************************************************************************)
AddsZ ==
    {<<"u1", "Bob", <<5, 0>>, "friend">>, <<"u1", "Bob", <<5, 0>>, "SELF">>,
     <<"u1", "Al", <<5, 0>>, "friend">>, <<"t_2", "Bob", <<5, 0>>, "friend">>}

NextZero ==
    \/ \E a \in AddsZ : AddVoiceFeature(a[1], a[2], a[3], a[4], "none")
    \/ \E u \in Users : DeleteUserAllVoices(u, "none")
    \/ \E u \in Users : DeleteUserPersonVoices(u, "Bob", "none")
    \/ \E u \in Users : GetUserStats(u, "none")
    \/ \E u \in Users : GetUserPersons(u, "none")
    \/ ClearAll("none", {})

SpecZero == Init /\ [][NextZero]_vars

(***************************************************************************)
(* C23.  For a tenant that holds no record, get_user_stats returns zero    *)
(* counts and an empty persons_detail, get_user_persons returns the empty  *)
(* list and find_most_similar for that tenant returns the empty list.      *)
(***************************************************************************)
C23_ZeroRecordTenant ==
    \A u \in Users :
        HeldBy(u) = {}
        => /\ LET stats == get_user_stats(St, now, u, "none").ret
              IN  /\ stats.user_audio_count = 0
                  /\ stats.total_persons = 0
                  /\ stats.total_audio_features = 0
                  /\ stats.persons_detail = <<>>
           /\ get_user_persons(St, now, u, "none").ret = <<>>
           /\ \A th \in {0, 60}, k \in {0, 1, 10} :
                 find_most_similar(St, <<5, 0>>, u, th, k, "none").ret = <<>>

\* a tenant emptied by delete_user_all_voices, its collection still there,
\* beside a tenant that holds records
C23_Witness ==
    /\ last.op = "delete_user_all_voices"
    /\ last.ret >= 1
    /\ HeldBy(last.user_id) = {}
    /\ CollectionName(last.user_id) \in DOMAIN collections
    /\ \E u \in Users : HeldBy(u) # {}
    /\ get_user_stats(St, now, last.user_id, "none").ret.total_audio_features = 0

(***************************************************************************)
(* C26.  Record lifecycle.  In every step: a stored record keeps its id,   *)
(* metadata and embedding (a record with a stored record's id is that      *)
(* record); a record disappears only in a delete_user_all_voices of its    *)
(* tenant, a delete_user_person_voices of its tenant and name when it is   *)
(* not a self record, or a clear_all; and a collection disappears or is    *)
(* replaced only in a clear_all.                                           *)
(***************************************************************************)
C26_RecordLifecycle ==
    [][/\ \A r \in AllRecords : \A r2 \in AllRecords' : r2.id = r.id => r2 = r
       /\ \A r \in AllRecords \ AllRecords' :
             \/ /\ last'.op = "delete_user_all_voices"
                /\ last'.user_id = r.metadata.user_id
             \/ /\ last'.op = "delete_user_person_voices"
                /\ last'.user_id = r.metadata.user_id
                /\ last'.person_name = r.metadata.person_name
                /\ ~IsSelfRecord(r)
             \/ last'.op = "clear_all"
       /\ \A n \in DOMAIN collections :
             \/ n \in DOMAIN collections' /\ collections'[n].cid = collections[n].cid
             \/ last'.op = "clear_all"]_vars

\* after a reset, a delete by person has removed a record and left the
\* tenant's self record of the same name
C26_Witness ==
    /\ resets >= 1
    /\ last.op = "delete_user_person_voices"
    /\ last.ret >= 1
    /\ \E r \in HeldBy(last.user_id) : r.metadata.person_name = last.person_name

NextInterfere ==
    \/ \E a \in AddsF : RegisterUserVoice(a[1], a[2], a[3], a[4], "none")
    \/ \E u \in Users : DeleteUser(u, "none")
    \/ \E u \in Users : DeletePerson(u, PersonId(u, "Bob", now), "none")
    \/ \E u \in Users : FindMostSimilar(<<5, 0>>, u, 60, 10, "none")
    \/ \E u \in Users : GetUserStats(u, "none")
    \/ \E u \in Users : Refill(u)

SpecInterfere == Init /\ [][NextInterfere]_vars

\* a step that is a request for tenant t1
OperationOn(t1) ==
    \/ \E a \in AddsF : a[1] = t1 /\ RegisterUserVoice(a[1], a[2], a[3], a[4], "none")
    \/ DeleteUser(t1, "none")
    \/ DeletePerson(t1, PersonId(t1, "Bob", now), "none")
    \/ FindMostSimilar(<<5, 0>>, t1, 60, 10, "none")
    \/ GetUserStats(t1, "none")

\* what the store and the caches keep for a tenant
Kept(d, user_id) == IF user_id \in DOMAIN d THEN <<d[user_id]>> ELSE <<>>

TenantState(t2) ==
    [records |-> HeldBy(t2),
     collection |-> Kept(collections, CollectionName(t2)),
     handle |-> Kept(collections_cache, t2),
     cached |-> Kept(feature_cache, t2),
     profile |-> Kept(user_profile_cache, t2)]

(***************************************************************************)
(* C27.  A request for tenant T1 leaves what is kept for another tenant T2 *)
(* as it was: T2's records and collection, T2's cached collection handle   *)
(* and T2's entries of the read caches.                                    *)
(***************************************************************************)
C27_NoCrossTenantInterference ==
    [][\A t1 \in Users, t2 \in Users :
          (t1 # t2 /\ OperationOn(t1)) => TenantState(t2)' = TenantState(t2)]_vars

\* a tenant has just been deleted while the other one holds records, a
\* cached handle and a filled read-cache entry
C27_Witness ==
    /\ last.op = "delete_user"
    /\ last.ret
    /\ \E t2 \in Users \ {last.user_id} :
          /\ HeldBy(t2) # {}
          /\ t2 \in DOMAIN collections_cache
          /\ t2 \in DOMAIN feature_cache
          /\ DOMAIN feature_cache[t2] # {}

(***************************************************************************)
(* C35.  delete_user(T) reports success exactly when it removed a record   *)
(* of T, and then T holds none; a delete_user(T) that follows a            *)
(* delete_user(T) reports failure.  Either way T has no entry in the read  *)
(* cache afterwards and the entries of the other tenants are as before.    *)
(***************************************************************************)
C35_PredictorDeleteOutcome ==
    [][\A u \in Users :
          DeleteUser(u, "none")
          => LET held == HeldBy(u)
                 left == {r \in held : r \in AllRecords'}
             IN  /\ last'.ret <=> left # held
                 /\ last'.ret => left = {}
                 /\ (last.op = "delete_user" /\ last.user_id = u) => ~last'.ret
                 /\ u \notin DOMAIN feature_cache'
                 /\ u \notin DOMAIN user_profile_cache'
                 /\ \A v \in Users \ {u} :
                       /\ v \in DOMAIN feature_cache' <=> v \in DOMAIN feature_cache
                       /\ v \in DOMAIN feature_cache
                          => feature_cache'[v] = feature_cache[v]]_vars

\* a tenant with a cached entry and two recordings has been deleted while
\* the other tenant's recordings were cached
C35_Witness ==
    /\ last.op = "delete_user"
    /\ last.ret
    /\ HeldBy(last.user_id) = {}
    /\ uuid_seq >= 2
    /\ \E v \in DOMAIN feature_cache : v # last.user_id /\ DOMAIN feature_cache[v] # {}

(***************************************************************************)
(* SpecReset: two tenants and resets that succeed, fail before dropping    *)
(* anything, or fail after dropping some of the collections: the           *)
(* collection whose delete_collection raised, and those after it, survive. *)
(***************************************************************************)
NextReset ==
    \/ \E a \in AddsZ : AddVoiceFeature(a[1], a[2], a[3], a[4], "none")
    \/ \E u \in Users : GetUserAllFeatures(u, "none")
    \/ \E f \in {"none", "list_collections"} : ClearAll(f, {})
    \/ \E survivors \in SUBSET DOMAIN collections :
          survivors # {} /\ ClearAll("delete_collection", survivors)

SpecReset == Init /\ [][NextReset]_vars

(***************************************************************************)
(* C31.  Every handle in collections_cache refers to a collection the      *)
(* client still has.                                                       *)
(***************************************************************************)
C31_HandleCacheNeverStale ==
    \A u \in DOMAIN collections_cache : Live(collections, collections_cache[u])

(***************************************************************************)
(* SpecRefill: a refill of the read cache in its two steps, the read of    *)
(* the tenant's grouped features and the put of what was read, with        *)
(* registrations and deletions of the tenant arriving between them.  A     *)
(* registration or deletion runs to its end: the storage write and the     *)
(* eviction are not separated by a suspension point.                       *)
(***************************************************************************)
\* features = self.chroma_storage.get_user_all_features(user_id), on a miss
RefillRead(w, user_id) ==
    /\ calls[w] = Idle
    /\ DOMAIN _get_cached_features(feature_cache, now, user_id) = {}
    /\ LET g == get_user_all_features(St, user_id, "none")
       IN  /\ SetSt(g.st)
           /\ calls' = [calls EXCEPT ![w] =
                           [pc |-> "put", user_id |-> user_id, groups |-> g.ret]]
    /\ UNCHANGED <<now, feature_cache, user_profile_cache, last, timing_stats>>

\* await self._cache_features(user_id, features)
RefillPut(w) ==
    /\ calls[w].pc = "put"
    /\ feature_cache' = _cache_features(feature_cache, now, calls[w].user_id,
                                        calls[w].groups)
    /\ calls' = [calls EXCEPT ![w] = Idle]
    /\ last' = [op |-> "refill", user_id |-> calls[w].user_id]
    /\ UNCHANGED <<collections, collections_cache, resets, uuid_seq, now,
                   user_profile_cache, timing_stats>>

NextRefill ==
    \/ \E a \in AddsF : RegisterUserVoice(a[1], a[2], a[3], a[4], "none")
    \/ \E u \in Users : DeleteUser(u, "none")
    \/ \E w \in {"w1", "w2"}, u \in Users : RefillRead(w, u)
    \/ \E w \in {"w1", "w2"} : RefillPut(w)

SpecRefill == Init /\ [][NextRefill]_vars

(***************************************************************************)
(* C33.  Once every refill in progress has completed, the cache entry of   *)
(* each tenant is absent or holds the grouped features the storage         *)
(* returns for the tenant now.                                             *)
(***************************************************************************)
C33_NoStaleRefill ==
    (\A w \in Threads : calls[w] = Idle)
    => \A u \in DOMAIN feature_cache :
          _get_cached_features(feature_cache, now, u)
              = get_user_all_features(St, u, "none").ret

(***************************************************************************)
(* SpecRecognize: the first tenant registers recordings identical and      *)
(* close to the probe, the second one far from it; probes are recognized   *)
(* within a tenant and over all tenants, with the feature extraction or    *)
(* the query failing in some calls.                                        *)
(***************************************************************************)
NextRecognize ==
    \/ \E a \in {<<"u1", "mid.wav">>, <<"u1", "near.wav">>, <<"t_2", "far.wav">>} :
          RegisterUserVoice(a[1], "Bob", a[2], "friend", "none")
    \/ \E t \in Users \cup {None}, f \in {"none", "predict", "query"} :
          RecognizeUserVoice("near.wav", 60, t, f)
    \/ \E u \in Users : DeleteUser(u, "none")

SpecRecognize == Init /\ [][NextRecognize]_vars

(***************************************************************************)
(* C34.  recognize_user_voice succeeds exactly when find_most_similar      *)
(* returns a match at the threshold; it then reports a returned match      *)
(* that no other returned match exceeds in similarity, with that           *)
(* similarity as confidence, and with user_id the target tenant when one   *)
(* was given.  A recognition that does not succeed names no match.         *)
(***************************************************************************)
C34_RecognitionPicksBest ==
    last.op = "recognize_user_voice"
    => LET found == IF last.fault = "predict" THEN <<>>
                    ELSE find_most_similar(St, Predict(last.audio_data),
                                           last.target_user_id, last.threshold,
                                           10, last.fault).ret
           r == last.ret
       IN  /\ r.success <=> Len(found) >= 1
           /\ r.success
              => /\ \E i \in 1..Len(found) :
                       /\ found[i].voice_id = r.voice_id
                       /\ found[i].user_id = r.user_id
                       /\ found[i].person_name = r.person_name
                       /\ found[i].similarity = r.confidence
                 /\ \A i \in 1..Len(found) : found[i].similarity <= r.confidence
                 /\ r.confidence >= last.threshold
                 /\ last.target_user_id # None => r.user_id = last.target_user_id
           /\ ~r.success => r.user_id = None /\ r.voice_id = None

\* a recognition within a tenant has chosen among two matches of different
\* similarity, the other tenant holding a recording below the threshold
C34_Witness ==
    /\ last.op = "recognize_user_voice"
    /\ last.ret.success
    /\ last.target_user_id = "u1"
    /\ \E x, y \in HeldBy("u1") : x.embedding # y.embedding
    /\ HeldBy("t_2") # {}

(***************************************************************************)
(* TimedMVectorPredictor (app/vpr/__init__.py): the wrapper that times the *)
(* calls of the feature extractor's methods.  Times are floats; the model  *)
(* carries them as multiples of the clock's resolution and rounds every    *)
(* sum to MantissaBits significant bits, to nearest with ties to even, as  *)
(* binary64 addition does at 53 bits.  An elapsed time is the difference   *)
(* of two readings of the monotonic clock, so it is not negative.  The     *)
(* specifications of the voice store take the feature extractor as the     *)
(* function Predict and do not follow these statistics.                    *)
(***************************************************************************)
\* float('inf')
inf == 1048576

\* the float nearest to x
Round(x) ==
    LET ulp == CHOOSE u \in {2^k : k \in 0..12} :
                   /\ x < 2^MantissaBits * u
                   /\ u = 1 \/ x >= 2^MantissaBits * (u \div 2)
        lo == (x \div ulp) * ulp
        r == x - lo
    IN  IF 2 * r < ulp THEN lo
        ELSE IF 2 * r > ulp THEN lo + ulp
        ELSE IF (lo \div ulp) % 2 = 0 THEN lo ELSE lo + ulp

\* method(*args) takes elapsed_time and returns, or raises
_time_method_counts_raises(stats, method_name, elapsed_time, raises) ==
    LET old == IF method_name \in DOMAIN stats THEN stats[method_name]
               ELSE [count |-> 0, total_time |-> 0, min_time |-> inf,
                     max_time |-> 0, last_time |-> 0]
        new == [count |-> old.count + 1,
                total_time |-> Round(old.total_time + elapsed_time),
                min_time |-> IF elapsed_time < old.min_time THEN elapsed_time
                             ELSE old.min_time,
                max_time |-> IF elapsed_time > old.max_time THEN elapsed_time
                             ELSE old.max_time,
                last_time |-> elapsed_time]
    IN  [timing_stats |-> (method_name :> new) @@ stats, exc |-> raises]
_time_method(stats, method_name, elapsed_time, raises) ==
    IF raises THEN [timing_stats |-> stats, exc |-> TRUE]
    ELSE LET old == IF method_name \in DOMAIN stats THEN stats[method_name]
                    ELSE [count |-> 0, total_time |-> 0, min_time |-> inf,
                          max_time |-> 0, last_time |-> 0]
             new == [count |-> old.count + 1,
                     total_time |-> Round(old.total_time + elapsed_time),
                     min_time |-> IF elapsed_time < old.min_time THEN elapsed_time
                                  ELSE old.min_time,
                     max_time |-> IF elapsed_time > old.max_time THEN elapsed_time
                                  ELSE old.max_time,
                     last_time |-> elapsed_time]
         IN  [timing_stats |-> (method_name :> new) @@ stats, exc |-> FALSE]

\* stats['count'] of a method, 0 before its first entry
CountOf(stats, m) == IF m \in DOMAIN stats THEN stats[m].count ELSE 0

\* predictor.predict(...), predictor.recognition(...), ...
TimedCall(method_name, elapsed_time, raises) ==
    /\ raises \/ CountOf(timing_stats, method_name) < MaxCalls
    /\ LET r == _time_method(timing_stats, method_name, elapsed_time, raises)
       IN  /\ timing_stats' = r.timing_stats
           /\ last' = [op |-> "_time_method", method_name |-> method_name,
                       elapsed_time |-> elapsed_time, exc |-> r.exc]
    /\ UNCHANGED <<collections, collections_cache, resets, uuid_seq, now,
                   feature_cache, user_profile_cache, calls>>

ResetTimingStats ==
    /\ timing_stats' = [m \in {} |-> <<>>]
    /\ last' = [op |-> "reset_timing_stats"]
    /\ UNCHANGED <<collections, collections_cache, resets, uuid_seq, now,
                   feature_cache, user_profile_cache, calls>>

NextTiming ==
    \/ \E m \in {"predict", "recognition"}, e \in {0, 5, 7}, raises \in BOOLEAN :
          TimedCall(m, e, raises)
    \/ ResetTimingStats

SpecTiming == Init /\ [][NextTiming]_vars

\* What the statistics of every method satisfy in every state, but for the
\* relation of total_time to the other fields
TimesInOrder ==
    \A m \in DOMAIN timing_stats :
        LET s == timing_stats[m]
        IN  /\ s.count >= 1
            /\ 0 <= s.min_time
            /\ s.min_time <= s.last_time
            /\ s.last_time <= s.max_time

\* The count of a method after a step: one more for a call that returned,
\* the same for a call that raised and for the other methods, none after a
\* reset
CountsFollowCalls ==
    /\ \A m \in {"predict", "recognition"}, e \in {0, 5, 7} :
          /\ TimedCall(m, e, FALSE)
             => /\ CountOf(timing_stats', m) = CountOf(timing_stats, m) + 1
                /\ ~last'.exc
                /\ \A o \in DOMAIN timing_stats' \ {m} :
                      o \in DOMAIN timing_stats /\ timing_stats'[o] = timing_stats[o]
          /\ TimedCall(m, e, TRUE)
             => last'.exc /\ timing_stats' = timing_stats
    /\ ResetTimingStats => DOMAIN timing_stats' = {}

(***************************************************************************)
(* C38.  Statement of the claim: a method's count is the number of its     *)
(* calls that returned since the last reset, min_time <= last_time <=      *)
(* max_time, total_time >= count * min_time, a call that raises leaves the *)
(* statistics as they were, and a reset empties them.                      *)
(***************************************************************************)
C38_Stated ==
    /\ [](/\ TimesInOrder
          /\ \A m \in DOMAIN timing_stats :
                timing_stats[m].total_time
                    >= timing_stats[m].count * timing_stats[m].min_time)
    /\ [][CountsFollowCalls]_vars

(***************************************************************************)
(* C38, amended.  As stated, with total_time >= max_time in place of       *)
(* total_time >= count * min_time: a sum of floats is rounded at every     *)
(* addition and can end below count * min_time, but never below its        *)
(* largest term.                                                           *)
(***************************************************************************)
C38_TimingBookkeeping ==
    /\ [](/\ TimesInOrder
          /\ \A m \in DOMAIN timing_stats :
                timing_stats[m].total_time >= timing_stats[m].max_time)
    /\ [][CountsFollowCalls]_vars

\* a call has raised after two calls of different length of the same method
\* had returned, the other method having statistics of its own
C38_Witness ==
    /\ last.op = "_time_method"
    /\ last.exc
    /\ last.method_name \in DOMAIN timing_stats
    /\ timing_stats[last.method_name].count >= 2
    /\ timing_stats[last.method_name].min_time
          < timing_stats[last.method_name].max_time
    /\ DOMAIN timing_stats = {"predict", "recognition"}

====
